---- MODULE Spec2Model ----
(***************************************************************************)
(* Model of src/functions.py: the table functions find_superfans,          *)
(* cummulative_edits and prepare_biweekly_data.  The plotting and fitting  *)
(* functions and the two text-matching functions are not modelled.         *)
(*                                                                         *)
(* A table (DataFrame) is the sequence of its rows in positional order,    *)
(* each row a record of its columns.  A timestamp is an integer number of  *)
(* ticks; TicksPerDay ticks make a calendar day, and tick 0 is the start   *)
(* of a Monday, the first day of a pandas 'W' period.  A float cell is a   *)
(* record [nan, val]: NaN is a missing cell, Val(v) a present one.         *)
(*                                                                         *)
(* Each function is one action: it reads its argument table and sets the   *)
(* tables it returns, and the argument itself where the function adds      *)
(* columns to the caller's table.  Argument tables are non-empty.          *)
(*                                                                         *)
(* The 0.95 quantile is kept exact by scaling with QuantileDen = 20: for   *)
(* the cell values of the model no comparison against a quantile is an     *)
(* equality between an integer and an interpolated value, so the floating  *)
(* point arithmetic of the library decides every comparison the same way.  *)
(* fillna(72, inplace=True) on the column selected at line 106 is taken    *)
(* to update compressed_df, as it does in pandas without copy-on-write.    *)
(***************************************************************************)
EXTENDS Integers, Sequences, FiniteSets

VARIABLES df, data, arg_period, pc, compressed_df, filtered_df, superfans, biweekly_data

vars == <<df, data, arg_period, pc, compressed_df, filtered_df, superfans, biweekly_data>>

(* ------------------------------ bounds -------------------------------- *)
MaxEvents == 3
NumUsers == 2
MaxTime == 2
MaxDay == 7
TicksPerDay == 2

(* ------------------------- program constants -------------------------- *)
FirstEditSize == 72
QuantileNum == 19
QuantileDen == 20
DaysPerWeek == 7

(* ----------------------------- float cells ---------------------------- *)
NaN == [nan |-> TRUE, val |-> 0]
Val(v) == [nan |-> FALSE, val |-> v]

Abs(x) == IF x < 0 THEN 0 - x ELSE x

(* ---------------------------- input tables ---------------------------- *)
Users == 1..NumUsers
Times == 0..MaxTime
Lens == {0, 100}

\* rows of a well-formed revision table: every text_length is present
RevisionRows == [userid : Users, timestamp : Times, text_length : {Val(l) : l \in Lens}]

\* rows of a revision table in which a text_length may be missing
RevisionRowsMissing == [userid : Users, timestamp : Times,
                        text_length : {Val(l) : l \in Lens} \cup {NaN}]

\* rows of a table of which only the timestamp column is read
PeriodTimes == {d * TicksPerDay + (d % TicksPerDay) : d \in 0..MaxDay}
TimestampRows == [timestamp : PeriodTimes]

\* the period aliases passed to the aggregation functions
Periods == {"D", "W", "2W"}

\* the non-empty tables of at most n rows
Tables(rows, n) == UNION {[1..k -> rows] : k \in 1..n}

(* ------------------------- generic table helpers ---------------------- *)
\* a table given row by row, as the sequence of its rows
Table(f) == f \o <<>>

Range(s) == {s[i] : i \in 1..Len(s)}

RECURSIVE SumSeq(_)
SumSeq(s) == IF s = <<>> THEN 0 ELSE s[1] + SumSeq(Tail(s))

\* lexicographic "strictly before" on integer key tuples of equal length
RECURSIVE LexLess(_, _)
LexLess(a, b) ==
    IF a = <<>> THEN FALSE
    ELSE IF a[1] # b[1] THEN a[1] < b[1]
    ELSE LexLess(Tail(a), Tail(b))

\* stable insertion sort of the positions 1..n by keys[i]: position i goes
\* behind every earlier position whose key is not greater
RECURSIVE InsertIdx(_, _, _)
InsertIdx(i, s, keys) ==
    IF s = <<>> THEN <<i>>
    ELSE IF LexLess(keys[i], keys[s[Len(s)]])
         THEN InsertIdx(i, SubSeq(s, 1, Len(s) - 1), keys) \o <<s[Len(s)]>>
         ELSE s \o <<i>>

RECURSIVE SortIdx(_, _)
SortIdx(keys, n) == IF n = 0 THEN <<>> ELSE InsertIdx(n, SortIdx(keys, n - 1), keys)

\* stable sort of table t by the key tuples keys[i] of its rows: ties keep
\* their positional order
StableSortBy(t, keys) ==
    LET p == SortIdx(keys, Len(t))
    IN Table([k \in 1..Len(t) |-> t[p[k]]])

\* the ascending sequence of a finite set of integer key tuples
RECURSIVE SortedKeys(_)
SortedKeys(S) ==
    IF S = {} THEN <<>>
    ELSE LET m == CHOOSE x \in S : \A y \in S : y = x \/ LexLess(x, y)
         IN <<m>> \o SortedKeys(S \ {m})

\* ascending sequence of the integers of a sequence (with repetitions)
SortInts(s) == StableSortBy(s, Table([i \in 1..Len(s) |-> <<s[i]>>]))

\* first() in place of last(): the first non-missing cell of a column
RECURSIVE FirstNonNull(_)
FirstNonNull(col) ==
    IF col = <<>> THEN NaN
    ELSE IF col[1].nan THEN FirstNonNull(Tail(col))
    ELSE col[1]

\* last non-missing cell of a column, NaN when every cell is missing
RECURSIVE LastNonNull(_)
LastNonNull(col) ==
    IF col = <<>> THEN NaN
    ELSE IF col[Len(col)].nan THEN LastNonNull(SubSeq(col, 1, Len(col) - 1))
    ELSE col[Len(col)]

(* --------------------------- find_superfans --------------------------- *)
\* df['date'] = df['timestamp'].dt.date
Date(ts) == ts \div TicksPerDay

WithDate(t) ==
    Table([i \in 1..Len(t) |->
        [userid |-> t[i].userid, timestamp |-> t[i].timestamp,
         text_length |-> t[i].text_length, date |-> Date(t[i].timestamp)]])

\* df.sort_values(by=['userid', 'date', 'timestamp'])
SortKey(r) == <<r.userid, r.date, r.timestamp>>
SortValues(t) == StableSortBy(t, Table([i \in 1..Len(t) |-> SortKey(t[i])]))

\* groupby(['userid', 'date'], as_index=False).last(): one row per observed
\* key, keys ascending, every other column its last non-missing cell
GroupKey(r) == <<r.userid, r.date>>

\* grouping by userid alone: one row per contributor, its last event
GroupLastPerUser(t) ==
    LET keys == SortedKeys({<<t[i].userid>> : i \in 1..Len(t)})
    IN Table([j \in 1..Len(keys) |->
          LET g == SelectSeq(t, LAMBDA r : r.userid = keys[j][1])
          IN [userid |-> keys[j][1], date |-> g[Len(g)].date,
              timestamp |-> g[Len(g)].timestamp,
              text_length |-> g[Len(g)].text_length]])

GroupLast(t) ==
    LET keys == SortedKeys({GroupKey(t[i]) : i \in 1..Len(t)})
        rowsOf(k) == SelectSeq(t, LAMBDA r : GroupKey(r) = k)
        col(g, f) == Table([i \in 1..Len(g) |-> g[i][f]])
    IN Table([j \in 1..Len(keys) |->
          LET g == rowsOf(keys[j])
          IN [userid |-> keys[j][1], date |-> keys[j][2],
              timestamp |-> LastNonNull(Table([i \in 1..Len(g) |-> Val(g[i].timestamp)])).val,
              text_length |-> LastNonNull(col(g, "text_length"))]])

\* sort_values(by='timestamp'): the default sort is not stable, so rows with
\* equal timestamps may come out in any order
RECURSIVE OrdersOf(_, _)
OrdersOf(t, S) ==
    IF S = {} THEN {<<>>}
    ELSE UNION {{<<i>> \o o : o \in OrdersOf(t, S \ {i})} :
                i \in {j \in S : \A k \in S : t[j].timestamp <= t[k].timestamp}}

TimeOrders(t) == OrdersOf(t, 1..Len(t))

\* the chronological re-sort left out: rows stay in grouping order
ReorderKeepsGroupOrder(t, p) == t

Reorder(t, p) == Table([i \in 1..Len(t) |-> t[p[i]]])

\* Series.diff(): NaN in the first row and wherever an operand is missing
Diff(col) ==
    Table([i \in 1..Len(col) |->
        IF i = 1 \/ col[i].nan \/ col[i - 1].nan THEN NaN
        ELSE Val(col[i].val - col[i - 1].val)])

\* Series.fillna(v)
FillNa(col, v) == Table([i \in 1..Len(col) |-> IF col[i].nan THEN Val(v) ELSE col[i]])

\* the missing first difference filled with 0 instead of 72
EditSizeZeroFill(t) == FillNa(Diff(Table([i \in 1..Len(t) |-> t[i].text_length])), 0)

EditSize(t) == FillNa(Diff(Table([i \in 1..Len(t) |-> t[i].text_length])), FirstEditSize)

WithEditSize(t) ==
    LET e == EditSize(t)
    IN Table([i \in 1..Len(t) |->
          [userid |-> t[i].userid, date |-> t[i].date, timestamp |-> t[i].timestamp,
           text_length |-> t[i].text_length, edit_size |-> e[i].val,
           day |-> Date(t[i].timestamp)]])

\* compressed_df.groupby(['day', 'userid']).size().reset_index(name='num_edits')
DayUserKey(r) == <<r.day, r.userid>>

DailyEdits(t) ==
    LET keys == SortedKeys({DayUserKey(t[i]) : i \in 1..Len(t)})
    IN Table([j \in 1..Len(keys) |->
          [day |-> keys[j][1], userid |-> keys[j][2],
           num_edits |-> Cardinality({i \in 1..Len(t) : DayUserKey(t[i]) = keys[j]})]])

\* Series.unique(): the distinct values in order of first appearance
RECURSIVE Unique(_)
Unique(s) ==
    IF s = <<>> THEN <<>>
    ELSE LET front == SubSeq(s, 1, Len(s) - 1)
         IN IF s[Len(s)] \in Range(front) THEN Unique(front)
            ELSE Unique(front) \o <<s[Len(s)]>>

\* quantile(0.95, interpolation='lower'): no interpolation between ranks
QuantileLower(col) ==
    LET v == SortInts(col)
    IN QuantileDen * v[((QuantileNum * (Len(v) - 1)) \div QuantileDen) + 1]

\* Series.quantile(0.95), linear interpolation, scaled by QuantileDen so
\* that it stays an integer: a value x satisfies x >= q iff
\* QuantileDen * x >= QuantileScaled(col)
QuantileScaled(col) ==
    LET v == SortInts(col)
        h == QuantileNum * (Len(v) - 1)
        lo == (h \div QuantileDen) + 1
        frac == h % QuantileDen
    IN IF frac = 0 THEN QuantileDen * v[lo]
       ELSE QuantileDen * v[lo] + frac * (v[lo + 1] - v[lo])

\* a strict comparison against the threshold
IsSuperfanStrict(num_edits, threshold) == QuantileDen * num_edits > threshold

\* superfans['num_edits'] >= superfans['num_edits'].quantile(0.95)
IsSuperfan(num_edits, threshold) == QuantileDen * num_edits >= threshold

\* the contributor table: userid, num_edits (rows of agg per user), superfan
Superfans(agg) ==
    LET ids == Unique(Table([i \in 1..Len(agg) |-> agg[i].userid]))
        num(u) == Cardinality({i \in 1..Len(agg) : agg[i].userid = u})
        col == Table([k \in 1..Len(ids) |-> num(ids[k])])
        threshold == QuantileScaled(col)
    IN Table([k \in 1..Len(ids) |->
          [userid |-> ids[k], num_edits |-> col[k],
           superfan |-> IsSuperfan(col[k], threshold)]])

\* compressed_df.merge(superfans[['userid', 'superfan']], on='userid', how='left'):
\* left order kept, one output row per matching right row, a missing
\* superfan cell when no right row matches
RECURSIVE Merge(_, _)
Merge(left, right) ==
    IF left = <<>> THEN <<>>
    ELSE LET r == left[1]
             m == SelectSeq(right, LAMBDA s : s.userid = r.userid)
             row(cell) == [userid |-> r.userid, date |-> r.date,
                           timestamp |-> r.timestamp, text_length |-> r.text_length,
                           edit_size |-> r.edit_size, day |-> r.day, superfan |-> cell]
             out == IF m = <<>> THEN <<row(NaN)>>
                    ELSE Table([k \in 1..Len(m) |-> row(Val(m[k].superfan))])
         IN out \o Merge(Tail(left), right)

\* compressed_df[compressed_df['edit_size'].abs() <= df_95] with
\* df_95 = compressed_df['edit_size'].quantile(0.95)
Threshold95(t) == QuantileScaled(Table([i \in 1..Len(t) |-> t[i].edit_size]))

KeepRow(r, df_95) == QuantileDen * Abs(r.edit_size) <= df_95

FilterOutliers(t) ==
    LET df_95 == Threshold95(t)
    IN SelectSeq(t, LAMBDA r : KeepRow(r, df_95))

\* what find_superfans returns for the rows of compressed_df in chronological
\* order, together with the caller's table as the function leaves it
Returns(dated, compressed) ==
    LET sf == Superfans(DailyEdits(compressed))
        merged == Merge(compressed, sf)
    IN [df |-> dated, compressed_df |-> merged,
        filtered_df |-> FilterOutliers(merged), superfans |-> sf]

\* the possible results of find_superfans(t), one per order the sort by
\* timestamp may give to rows with equal timestamps
FindSuperfansResults(t) ==
    LET dated == WithDate(t)
        grouped == GroupLast(SortValues(dated))
    IN {Returns(dated, WithEditSize(Reorder(grouped, p))) : p \in TimeOrders(grouped)}

FindSuperfans ==
    /\ pc = "input"
    /\ df # <<>>
    /\ \E r \in FindSuperfansResults(df) :
          /\ df' = r.df
          /\ compressed_df' = r.compressed_df
          /\ filtered_df' = r.filtered_df
          /\ superfans' = r.superfans
    /\ pc' = "find_superfans"
    /\ UNCHANGED <<data, arg_period, biweekly_data>>

(* --------------- cummulative_edits / prepare_biweekly_data ------------ *)
\* ticks in the base unit of a period alias; to_period() buckets by the base
\* unit, the multiple of an alias such as '2W' only widens the period's end
UnitTicks(period) ==
    IF period = "D" THEN TicksPerDay ELSE DaysPerWeek * TicksPerDay

\* the end of the bucket in place of its start
PeriodEnd(ts, period) == ts - (ts % UnitTicks(period)) + UnitTicks(period)

\* data['timestamp'].dt.to_period(period).dt.start_time
PeriodStart(ts, period) == ts - (ts % UnitTicks(period))

WithPeriod(t, period) ==
    Table([i \in 1..Len(t) |->
        [timestamp |-> t[i].timestamp,
         period_start |-> PeriodStart(t[i].timestamp, period)]])

\* groupby(f'{period}_period').size().reset_index(name='revisions'): one row
\* per observed bucket, buckets ascending
PeriodCounts(t) ==
    LET keys == SortedKeys({<<t[i].period_start>> : i \in 1..Len(t)})
    IN Table([j \in 1..Len(keys) |->
          [period_start |-> keys[j][1],
           revisions |-> Cardinality({i \in 1..Len(t) : t[i].period_start = keys[j][1]})]])

\* sort_values(f'{period}_period')
PeriodKey(r) == <<r.period_start>>
SortByPeriod(t) == StableSortBy(t, Table([i \in 1..Len(t) |-> PeriodKey(t[i])]))

\* a running sum that leaves the row's own count out
CumSumExclusive(col) == Table([i \in 1..Len(col) |-> SumSeq(SubSeq(col, 1, i - 1))])

\* Series.cumsum()
CumSum(col) == Table([i \in 1..Len(col) |-> SumSeq(SubSeq(col, 1, i))])

WithCumulative(t) ==
    LET c == CumSum(Table([i \in 1..Len(t) |-> t[i].revisions]))
    IN Table([i \in 1..Len(t) |->
          [period_start |-> t[i].period_start, revisions |-> t[i].revisions,
           cumulative_revisions |-> c[i]]])

\* what the body shared by both aggregation functions returns, together
\* with the caller's table as it leaves it
Aggregate(t, period) ==
    LET bucketed == WithPeriod(t, period)
    IN [data |-> bucketed,
        biweekly_data |-> WithCumulative(SortByPeriod(PeriodCounts(bucketed)))]

CummulativeEdits ==
    /\ pc = "input"
    /\ data # <<>>
    /\ \E period \in Periods :
          /\ arg_period' = period
          /\ data' = Aggregate(data, period).data
          /\ biweekly_data' = Aggregate(data, period).biweekly_data
    /\ pc' = "cummulative_edits"
    /\ UNCHANGED <<df, compressed_df, filtered_df, superfans>>

PrepareBiweeklyData ==
    /\ pc = "input"
    /\ data # <<>>
    /\ \E period \in Periods :
          /\ arg_period' = period
          /\ data' = Aggregate(data, period).data
          /\ biweekly_data' = Aggregate(data, period).biweekly_data
    /\ pc' = "prepare_biweekly_data"
    /\ UNCHANGED <<df, compressed_df, filtered_df, superfans>>

(* --------------------------- specifications --------------------------- *)
NoOutput ==
    /\ pc = "input"
    /\ compressed_df = <<>>
    /\ filtered_df = <<>>
    /\ superfans = <<>>
    /\ biweekly_data = <<>>
    /\ arg_period = "2W"

\* find_superfans on a well-formed revision table
Init ==
    /\ df \in Tables(RevisionRows, MaxEvents)
    /\ data = <<>>
    /\ NoOutput

Next == FindSuperfans

Spec == Init /\ [][Next]_vars

\* find_superfans on a revision table with missing text_length cells
InitMissing ==
    /\ df \in Tables(RevisionRowsMissing, MaxEvents)
    /\ data = <<>>
    /\ NoOutput

SpecMissing == InitMissing /\ [][Next]_vars

\* the two period aggregation functions on a table of timestamps
InitPeriod ==
    /\ df = <<>>
    /\ data \in Tables(TimestampRows, MaxEvents)
    /\ NoOutput

NextPeriod == CummulativeEdits \/ PrepareBiweeklyData

SpecPeriod == InitPeriod /\ [][NextPeriod]_vars

(* ------------------------------ properties ---------------------------- *)
Returned == pc = "find_superfans"
Aggregated == pc \in {"cummulative_edits", "prepare_biweekly_data"}

Rows(t) == 1..Len(t)

\* the positions of the input events of contributor u on calendar day d
EventsOf(u, d) == {k \in Rows(df) : df[k].userid = u /\ Date(df[k].timestamp) = d}

\* C1: the compressed table holds at most one row per (userid, date) pair,
\* exactly one row for every pair that occurs in the input, and no row for
\* a pair that does not occur in it.
C1_OneRowPerUserDay ==
    Returned =>
        /\ \A i, j \in Rows(compressed_df) :
              (/\ compressed_df[i].userid = compressed_df[j].userid
               /\ compressed_df[i].date = compressed_df[j].date) => i = j
        /\ \A k \in Rows(df) :
              Cardinality({i \in Rows(compressed_df) :
                  /\ compressed_df[i].userid = df[k].userid
                  /\ compressed_df[i].date = Date(df[k].timestamp)}) = 1
        /\ \A i \in Rows(compressed_df) :
              EventsOf(compressed_df[i].userid, compressed_df[i].date) # {}

\* three input events collapse into two compressed rows
C1_Witness ==
    /\ Returned
    /\ Len(df) = 3
    /\ Len(compressed_df) = 2

\* C2: every compressed row is the chronologically last event of its
\* (userid, date) group: its timestamp is the greatest timestamp of the
\* group and its text_length is that of a group event with that timestamp.
C2_KeepsLastEventOfGroup ==
    Returned =>
        \A i \in Rows(compressed_df) :
            LET G == EventsOf(compressed_df[i].userid, compressed_df[i].date)
            IN /\ \A k \in G : df[k].timestamp <= compressed_df[i].timestamp
               /\ \E k \in G :
                     /\ df[k].timestamp = compressed_df[i].timestamp
                     /\ df[k].text_length = compressed_df[i].text_length

\* a group of two events given latest first, with different lengths, and a
\* second contributor on a later day
C2_Witness ==
    /\ Returned
    /\ Len(df) = 3
    /\ df[1].userid = df[2].userid
    /\ Date(df[1].timestamp) = Date(df[2].timestamp)
    /\ df[1].timestamp > df[2].timestamp
    /\ df[1].text_length # df[2].text_length
    /\ df[3].userid # df[1].userid
    /\ Date(df[3].timestamp) > Date(df[1].timestamp)
    /\ Len(compressed_df) = 2
    /\ compressed_df[1].text_length = df[1].text_length

\* C3: the first compressed row is the globally earliest one and its
\* edit_size is 72.
C3_FirstEditSizeIsDefault ==
    Returned =>
        /\ compressed_df # <<>>
        /\ compressed_df[1].edit_size = FirstEditSize
        /\ \A i \in Rows(compressed_df) :
              compressed_df[1].timestamp <= compressed_df[i].timestamp

\* the earliest compressed row belongs to the contributor with the greater
\* id, so the chronological order differs from the grouping order
C3_Witness ==
    /\ Returned
    /\ Len(compressed_df) >= 2
    /\ compressed_df[1].userid > compressed_df[2].userid
    /\ compressed_df[1].timestamp < compressed_df[2].timestamp
    /\ compressed_df[1].edit_size = FirstEditSize

\* C4: the compressed table, as returned after the superfan join, is in
\* ascending timestamp order, and every row but the first has edit_size =
\* its text_length minus the text_length of the row right before it,
\* whoever made that edit.
C4_GlobalOrderAndForwardDifference ==
    Returned =>
        \A i \in Rows(compressed_df) \ {1} :
            /\ compressed_df[i - 1].timestamp <= compressed_df[i].timestamp
            /\ compressed_df[i].edit_size =
                  compressed_df[i].text_length.val - compressed_df[i - 1].text_length.val

\* a deletion measured against the edit of another contributor, whose id is
\* greater, followed by a third row
C4_Witness ==
    /\ Returned
    /\ Len(compressed_df) = 3
    /\ compressed_df[1].userid > compressed_df[2].userid
    /\ compressed_df[2].edit_size < 0
    /\ compressed_df[3].edit_size > 0

\* the j-th smallest value of a column, by counting
OrderStatistic(col, j) ==
    CHOOSE v \in Range(col) :
        /\ Cardinality({i \in Rows(col) : col[i] <= v}) >= j
        /\ Cardinality({i \in Rows(col) : col[i] < v}) < j

\* QuantileDen times the linear-interpolated 95th percentile of col
Percentile95Scaled(col) ==
    LET h == QuantileNum * (Len(col) - 1)
        j == (h \div QuantileDen) + 1
        g == h % QuantileDen
        a == OrderStatistic(col, j)
        b == IF g = 0 THEN a ELSE OrderStatistic(col, j + 1)
    IN QuantileDen * a + g * (b - a)

DayCounts == Table([k \in Rows(superfans) |-> superfans[k].num_edits])

\* C5: the contributor table has exactly one row per contributor of the
\* input, num_edits is the number of distinct calendar days of that
\* contributor, and superfan holds iff num_edits is at or above the
\* linear-interpolated 95th percentile of num_edits over all contributors.
C5_SuperfanIffAtOrAbovePercentile ==
    Returned =>
        /\ \A k, l \in Rows(superfans) :
              superfans[k].userid = superfans[l].userid => k = l
        /\ {superfans[k].userid : k \in Rows(superfans)} = {df[i].userid : i \in Rows(df)}
        /\ \A k \in Rows(superfans) :
              /\ superfans[k].num_edits =
                    Cardinality({Date(df[i].timestamp) :
                        i \in {j \in Rows(df) : df[j].userid = superfans[k].userid}})
              /\ superfans[k].superfan <=>
                    QuantileDen * superfans[k].num_edits >= Percentile95Scaled(DayCounts)

\* two contributors, one active on two days and a superfan, the other on
\* one day and none
C5_Witness ==
    /\ Returned
    /\ Len(superfans) = 2
    /\ \E k, l \in Rows(superfans) :
          /\ superfans[k].num_edits = 2 /\ superfans[k].superfan
          /\ superfans[l].num_edits = 1 /\ ~superfans[l].superfan

\* C6: the filtered table is exactly the compressed rows whose |edit_size|
\* is at most the 95th percentile of |edit_size| over all compressed rows
\* (stated for tables whose compressed rows have distinct timestamps, where
\* the row order, and so every edit_size, is determined by the input).
C6_FilterByPercentileOfMagnitude ==
    (/\ Returned
     /\ \A i, j \in Rows(compressed_df) :
           compressed_df[i].timestamp = compressed_df[j].timestamp => i = j)
    =>
        LET mag == Table([i \in Rows(compressed_df) |-> Abs(compressed_df[i].edit_size)])
        IN filtered_df =
              SelectSeq(compressed_df,
                        LAMBDA r : QuantileDen * Abs(r.edit_size) <= Percentile95Scaled(mag))

\* C7: the bucket counts sum to the number of input rows, and so does the
\* cumulative value of the last bucket.
C7_CountsSumToInputRows ==
    Aggregated =>
        /\ SumSeq(Table([i \in Rows(biweekly_data) |-> biweekly_data[i].revisions]))
              = Len(data)
        /\ biweekly_data # <<>>
        /\ biweekly_data[Len(biweekly_data)].cumulative_revisions = Len(data)

\* three events in two buckets
C7_Witness ==
    /\ Aggregated
    /\ Len(data) = 3
    /\ Len(biweekly_data) = 2

\* C8: apart from the first row, no compressed row gets its edit_size by
\* substitution of the default: it is the difference of two present
\* text_length cells.
C8_DefaultOnlyForFirstRow ==
    Returned =>
        \A i \in Rows(compressed_df) \ {1} :
            /\ ~compressed_df[i].text_length.nan
            /\ ~compressed_df[i - 1].text_length.nan
            /\ compressed_df[i].edit_size =
                  compressed_df[i].text_length.val - compressed_df[i - 1].text_length.val

\* timestamp ts lies in the bucket that starts at b
InBucket(ts, b) ==
    /\ b % UnitTicks(arg_period) = 0
    /\ b <= ts
    /\ ts < b + UnitTicks(arg_period)

C10_SomeSuperfan ==
    Returned =>
        /\ \E k \in Rows(superfans) : superfans[k].superfan
        /\ \A k \in Rows(superfans) :
              (\A l \in Rows(superfans) : superfans[l].num_edits <= superfans[k].num_edits)
                  => superfans[k].superfan
        /\ \A i \in Rows(compressed_df) : ~compressed_df[i].superfan.nan

\* two contributors with the same num_edits, both superfans
C10_Witness ==
    /\ Returned
    /\ Len(superfans) = 2
    /\ superfans[1].num_edits = superfans[2].num_edits
    /\ superfans[1].superfan
    /\ superfans[2].superfan
    /\ \A i \in Rows(compressed_df) : compressed_df[i].superfan.val

====
